---------------------------- MODULE Spec2Model ----------------------------
(***************************************************************************)
(* A model of src/world.js: the immutable World grid, its constructor,     *)
(* withCharacterAt, the rows getter, the _at lookup and the static         *)
(* populatedBy builder.                                                    *)
(*                                                                         *)
(* World objects live in a heap (worlds), addressed by their index, so     *)
(* that an operation which changed its receiver would be visible.  Two     *)
(* specifications are given: Spec, a client that constructs worlds and     *)
(* calls withCharacterAt on them, and SpecPop, one call of populatedBy     *)
(* executed statement by statement against a populator.                    *)
(***************************************************************************)
EXTENDS Integers, Sequences, FiniteSets

VARIABLES
    worlds,     \* the heap: worlds[i] is the World object with reference i
    last,       \* the most recent constructor / withCharacterAt call
    pc,         \* position inside populatedBy
    width,      \* populatedBy: argument width
    height,     \* populatedBy: argument height
    x,          \* populatedBy: loop variable x
    y,          \* populatedBy: loop variable y
    world,      \* populatedBy: local variable world (a reference, 0 = unset)
    populator,  \* populatedBy: argument populator (an object with next())
    asked,      \* number of populator.next() calls made so far
    returned    \* reference populatedBy returned to its caller (0 = none)

vars == <<worlds, last, pc, width, height, x, y, world, populator, asked, returned>>

popVars == <<pc, width, height, x, y, world, populator, asked, returned>>

(***************************************************************************)
(* Bounds of the model.                                                    *)
(***************************************************************************)
\* widths and heights range over 0..MaxDim
MaxDim == 2

\* the client of Spec allocates at most MaxWorlds World objects
MaxWorlds == 3

\* a populator holds at most MaxPop symbols before it is exhausted
MaxPop == 5

(***************************************************************************)
(* JavaScript values.  _at answers undefined and null for "out of bounds"  *)
(* and "no record".  The code never validates the character it is handed   *)
(* (withCharacterAt stores its argument as it is), so the characters a     *)
(* caller or a populator can supply include null.                          *)
(***************************************************************************)
Null == "null"

Undefined == "undefined"

Symbols == {"A", "B"}

Values == Symbols \cup {Null}

Dims == 0 .. MaxDim

(***************************************************************************)
(* class World                                                             *)
(***************************************************************************)
\* constructor(width, height, characters): rest is <<>> when the third
\* argument is omitted (characters === undefined) and <<characters>> otherwise.
World(w, h, rest) ==
    [width |-> w,
     height |-> h,
     characters |-> IF Len(rest) = 0 THEN << >> ELSE rest[1]]

\* Array.prototype.concat: a new array, the receiver's elements then the
\* argument's.
concat(arr, items) == arr \o items

\* Array.prototype.find with the predicate (r) => r.x == x && r.y == y, as a
\* forward scan from index i: the index of the first matching record, or 0
\* when find returns undefined.
RECURSIVE find(_, _, _, _)
find(characters, cx, cy, i) ==
    IF i > Len(characters) THEN 0
    ELSE IF characters[i].x = cx /\ characters[i].y = cy THEN i
    ELSE find(characters, cx, cy, i + 1)

\* findLast in place of find: the latest matching record.
RECURSIVE findLast(_, _, _, _)
findLast(characters, cx, cy, i) ==
    IF i > Len(characters) THEN 0
    ELSE LET later == findLast(characters, cx, cy, i + 1)
         IN  IF later # 0 THEN later
             ELSE IF characters[i].x = cx /\ characters[i].y = cy THEN i
             ELSE 0

\* _at with findLast: last write wins.
atLastMatch(this, cx, cy) ==
    IF cx < 0 \/ cx >= this.width \/ cy < 0 \/ cy >= this.height
    THEN Undefined
    ELSE LET record == findLast(this.characters, cx, cy, 1)
         IN  IF record = 0 THEN Null ELSE this.characters[record].character

\* _at with > in place of >= in the bounds test.
atOffByOne(this, cx, cy) ==
    IF cx < 0 \/ cx > this.width \/ cy < 0 \/ cy > this.height
    THEN Undefined
    ELSE LET record == find(this.characters, cx, cy, 1)
         IN  IF record = 0 THEN Null ELSE this.characters[record].character

\* _at without the bounds test.
atUnchecked(this, cx, cy) ==
    LET record == find(this.characters, cx, cy, 1)
    IN  IF record = 0 THEN Null ELSE this.characters[record].character

\* _at matching records on x alone.
atColumnOnly(this, cx, cy) ==
    IF cx < 0 \/ cx >= this.width \/ cy < 0 \/ cy >= this.height
    THEN Undefined
    ELSE LET hits == {i \in 1 .. Len(this.characters) : this.characters[i].x = cx}
         IN  IF hits = {} THEN Null
             ELSE this.characters[CHOOSE i \in hits : \A j \in hits : i <= j].character

\* _at(x, y)
_at(this, cx, cy) ==
    IF cx < 0 \/ cx >= this.width \/ cy < 0 \/ cy >= this.height
    THEN Undefined
    ELSE LET record == find(this.characters, cx, cy, 1)
         IN  IF record = 0 THEN Null ELSE this.characters[record].character

\* rows with the two indices handed to _at in the wrong order.
rowsTransposed(this) ==
    [rowNum \in 1 .. this.height |->
        [colNum \in 1 .. this.width |-> _at(this, rowNum - 1, colNum - 1)]]

\* get rows(): element [rowNum + 1][colNum + 1] of the result is
\* rows[rowNum][colNum] of the JavaScript array of arrays.
rows(this) ==
    [rowNum \in 1 .. this.height |->
        [colNum \in 1 .. this.width |-> _at(this, colNum - 1, rowNum - 1)]]

\* withCharacterAt pushing onto the receiver's own array and sharing it.
withCharacterAtInPlace(heap, this, character, cx, cy) ==
    LET newChars == concat(heap[this].characters,
                           <<[x |-> cx, y |-> cy, character |-> character]>>)
        pushed == [heap EXCEPT ![this].characters = newChars]
    IN  Append(pushed, World(heap[this].width, heap[this].height, <<newChars>>))

\* withCharacterAt replacing an earlier record at the same coordinates.
withCharacterAtReplacing(heap, this, character, cx, cy) ==
    LET kept == SelectSeq(heap[this].characters,
                          LAMBDA r : ~(r.x = cx /\ r.y = cy))
        newChars == concat(kept, <<[x |-> cx, y |-> cy, character |-> character]>>)
    IN  Append(heap, World(heap[this].width, heap[this].height, <<newChars>>))

\* withCharacterAt(character, x, y) on the object with reference this: the
\* heap after the call.  The new World is the last object of that heap.
withCharacterAt(heap, this, character, cx, cy) ==
    LET newChars == concat(heap[this].characters,
                           <<[x |-> cx, y |-> cy, character |-> character]>>)
    IN  Append(heap, World(heap[this].width, heap[this].height, <<newChars>>))


\* the statement world = world.withCharacterAt(populator.next(), x, y) with
\* x and y handed over in the wrong order.
placeSwapped(heap, this, character, cx, cy) ==
    withCharacterAt(heap, this, character, cy, cx)

\* populatedBy, line 17: world.withCharacterAt(<value of populator.next()>, x, y)
place(heap, this, character, cx, cy) ==
    withCharacterAt(heap, this, character, cx, cy)

\* populatedBy catching the populator's exception and returning what it has
\* built so far.
raiseCaught(partial) == [pc |-> "done", returned |-> partial]

\* populatedBy when populator.next() throws at line 17: there is no try/catch,
\* so the call is abandoned and nothing is returned.
raise(partial) == [pc |-> "threw", returned |-> 0]

(***************************************************************************)
(* The populator: an object whose next() hands out items[pos + 1] and      *)
(* throws once the items are used up.                                      *)
(***************************************************************************)
Populators ==
    {[items |-> s, pos |-> 0] :
        s \in UNION {[1 .. n -> Values] : n \in 0 .. MaxPop}}

nextThrows(p) == p.pos >= Len(p.items)

nextValue(p) == p.items[p.pos + 1]

nextAfter(p) == [p EXCEPT !.pos = @ + 1]

(***************************************************************************)
(* Spec: a client that constructs a world, new World(w, h), and keeps      *)
(* placing characters on the newest one, g = g.withCharacterAt(...), while *)
(* every earlier object stays in the heap.                                 *)
(***************************************************************************)
NoCall ==
    [op |-> "none", recv |-> 0, ret |-> 0, before |-> World(0, 0, << >>),
     character |-> Null, x |-> 0, y |-> 0]

NoPopulator == [items |-> << >>, pos |-> 0]

\* populatedBy is not running.
PopIdle ==
    /\ pc = "idle"
    /\ width = 0
    /\ height = 0
    /\ x = 0
    /\ y = 0
    /\ world = 0
    /\ populator = NoPopulator
    /\ asked = 0
    /\ returned = 0

\* the state after new World(w, h)
Init ==
    /\ \E w \in Dims, h \in Dims :
          /\ worlds = <<World(w, h, << >>)>>
          /\ last = [NoCall EXCEPT !.op = "new", !.ret = 1,
                                   !.before = World(w, h, << >>)]
    /\ PopIdle

\* worlds[this].withCharacterAt(character, cx, cy)
WithCharacterAt(this, character, cx, cy) ==
    /\ pc = "idle"
    /\ Len(worlds) < MaxWorlds
    /\ worlds' = withCharacterAt(worlds, this, character, cx, cy)
    /\ last' = [op |-> "withCharacterAt", recv |-> this, ret |-> Len(worlds) + 1,
                before |-> worlds[this],
                character |-> character, x |-> cx, y |-> cy]
    /\ UNCHANGED popVars

\* The coordinates the client hands to g.withCharacterAt: every cell of g,
\* one point beyond each of the four edges the bounds test of _at looks at,
\* and one point beyond two edges at once.
Targets(g) ==
    ((0 .. g.width - 1) \X (0 .. g.height - 1))
        \cup {<<-1, 0>>, <<g.width, 0>>, <<0, -1>>, <<0, g.height>>,
              <<g.width, g.height>>}

Next ==
    \E this \in {Len(worlds)}, character \in Values :
        \E t \in Targets(worlds[this]) :
            WithCharacterAt(this, character, t[1], t[2])

Spec == Init /\ [][Next]_vars

(***************************************************************************)
(* SpecPop: one call World.populatedBy(width, height, populator), one      *)
(* statement per step.  The worlds the loop builds are heap objects like   *)
(* any other.                                                              *)
(***************************************************************************)
InitPop ==
    /\ worlds = << >>
    /\ last = NoCall
    /\ pc = "call"
    /\ width \in Dims
    /\ height \in Dims
    /\ x = 0
    /\ y = 0
    /\ world = 0
    /\ populator \in Populators
    /\ asked = 0
    /\ returned = 0

\* line 14: let world = new World(width, height); line 15: let x = 0
PopulatedByCall ==
    /\ pc = "call"
    /\ worlds' = Append(worlds, World(width, height, << >>))
    /\ world' = Len(worlds) + 1
    /\ x' = 0
    /\ pc' = "outer"
    /\ UNCHANGED <<last, width, height, y, populator, asked, returned>>

\* line 15: x < width; on entry to the body, line 16: let y = 0
PopulatedByOuter ==
    /\ pc = "outer"
    /\ IF x < width
       THEN y' = 0 /\ pc' = "inner"
       ELSE y' = y /\ pc' = "return"
    /\ UNCHANGED <<worlds, last, width, height, x, world, populator, asked, returned>>

\* line 16: y < height; when the inner loop ends, line 15: x++
PopulatedByInner ==
    /\ pc = "inner"
    /\ IF y < height
       THEN x' = x /\ pc' = "body"
       ELSE x' = x + 1 /\ pc' = "outer"
    /\ UNCHANGED <<worlds, last, width, height, y, world, populator, asked, returned>>

\* line 17 when populator.next() returns a value; line 16: y++
PopulatedByBody ==
    /\ pc = "body"
    /\ ~nextThrows(populator)
    /\ asked' = asked + 1
    /\ populator' = nextAfter(populator)
    /\ worlds' = place(worlds, world, nextValue(populator), x, y)
    /\ world' = Len(worlds) + 1
    /\ y' = y + 1
    /\ pc' = "inner"
    /\ UNCHANGED <<last, width, height, x, returned>>

\* line 17 when populator.next() throws
PopulatedByThrow ==
    /\ pc = "body"
    /\ nextThrows(populator)
    /\ asked' = asked + 1
    /\ pc' = raise(world).pc
    /\ returned' = raise(world).returned
    /\ UNCHANGED <<worlds, last, width, height, x, y, world, populator>>

\* line 21: return world
PopulatedByReturn ==
    /\ pc = "return"
    /\ returned' = world
    /\ pc' = "done"
    /\ UNCHANGED <<worlds, last, width, height, x, y, world, populator, asked>>

NextPop ==
    \/ PopulatedByCall
    \/ PopulatedByOuter
    \/ PopulatedByInner
    \/ PopulatedByBody
    \/ PopulatedByThrow
    \/ PopulatedByReturn

SpecPop == InitPop /\ [][NextPop]_vars

(***************************************************************************)
(* The claims.                                                             *)
(***************************************************************************)
\* (cx, cy) lies in [0, width) x [0, height) of g
InBounds(g, cx, cy) == 0 <= cx /\ cx < g.width /\ 0 <= cy /\ cy < g.height

\* the indices of g's records whose coordinates are (cx, cy)
Matching(g, cx, cy) ==
    {k \in 1 .. Len(g.characters) :
        g.characters[k].x = cx /\ g.characters[k].y = cy}

\* the least element of a non-empty set of indices
Earliest(S) == CHOOSE k \in S : \A j \in S : k <= j

\* the coordinates a lookup on g is tried at: the cells of g and a border of
\* one cell around them
ProbeX(g) == -1 .. g.width

ProbeY(g) == -1 .. g.height

\* the newest World of the heap.  Every World is the newest one in the state
\* its constructor call leads to, so a property of Newest in every reachable
\* state is a property of every World the client can obtain.
Newest == {worlds[i] : i \in {Len(worlds)} \ {0}}

\* the last call was a withCharacterAt
Placed == last.op = "withCharacterAt"

\* the World the last call returned
Result == worlds[last.ret]

\* C1: first write wins.  In every grid, an in-bounds cell with at least one
\* record shows the character of the earliest record at that cell; and a
\* withCharacterAt at a cell that already had a record leaves the visible
\* character of that cell as it was.
C1_FirstWriteWins ==
    /\ \A g \in Newest : \A cx \in ProbeX(g), cy \in ProbeY(g) :
          (InBounds(g, cx, cy) /\ Matching(g, cx, cy) # {})
            => _at(g, cx, cy) = g.characters[Earliest(Matching(g, cx, cy))].character
    /\ (Placed /\ InBounds(last.before, last.x, last.y)
               /\ Matching(last.before, last.x, last.y) # {})
          => _at(Result, last.x, last.y) = _at(last.before, last.x, last.y)

\* C1 witness: 'B' was placed on a cell already holding 'A', and 'A' shows.
C1_Witness ==
    /\ Placed
    /\ InBounds(last.before, last.x, last.y)
    /\ _at(last.before, last.x, last.y) = "A"
    /\ last.character = "B"
    /\ _at(Result, last.x, last.y) = "A"

\* C2: a lookup outside [0, width) x [0, height) answers the out-of-bounds
\* value (undefined), whatever records the grid holds, and so neither the
\* empty value (null) nor a stored character.
C2_OutOfBounds ==
    \A g \in Newest : \A cx \in ProbeX(g), cy \in ProbeY(g) :
        ~InBounds(g, cx, cy)
          => /\ _at(g, cx, cy) = Undefined
             /\ _at(g, cx, cy) # Null
             /\ _at(g, cx, cy) \notin Symbols

\* C2 witness: a grid holds a record with a symbol at out-of-range
\* coordinates, and the lookup there answers undefined.
C2_Witness ==
    \E g \in Newest : \E k \in 1 .. Len(g.characters) :
        LET r == g.characters[k]
        IN  /\ ~InBounds(g, r.x, r.y)
            /\ r.character \in Symbols
            /\ _at(g, r.x, r.y) = Undefined

\* C3: populatedBy asks the populator once per cell, width * height times in
\* all, x outer and y inner: never more than width * height requests, and on
\* return the k-th symbol handed out (k from 0) is the k-th record, at
\* (k div height, k mod height), and rows[row][col] is symbol col * height + row.
C3_PopulatedBy ==
    /\ asked <= width * height
    /\ pc = "done" =>
        LET g == worlds[returned]
        IN  /\ asked = width * height
            /\ populator.pos = width * height
            /\ g.width = width
            /\ g.height = height
            /\ g.characters =
                 [k \in 1 .. width * height |->
                    [x |-> (k - 1) \div height,
                     y |-> (k - 1) % height,
                     character |-> populator.items[k]]]
            /\ \A row \in 0 .. height - 1 : \A col \in 0 .. width - 1 :
                 rows(g)[row + 1][col + 1] = populator.items[col * height + row + 1]

\* C3 witness: a 2 x 2 grid was returned from a populator handing out
\* A, A, B, B (and holding one symbol more), giving the rows [A, B], [A, B].
C3_Witness ==
    /\ pc = "done"
    /\ width = 2
    /\ height = 2
    /\ populator.items = <<"A", "A", "B", "B", "A">>
    /\ rows(worlds[returned]) = <<(<<"A", "B">>), (<<"A", "B">>)>>

\* C4: no step changes an existing World: every object of the heap, the
\* receiver of a withCharacterAt included, keeps its width, height and records
\* (and with them its lookups and rows, which are computed from these alone),
\* whatever is done afterwards.
C4_NonDestructive ==
    [][\A i \in 1 .. Len(worlds) :
          /\ i <= Len(worlds')
          /\ worlds'[i] = worlds[i]]_vars

\* C4 witness: a grid with a record received a withCharacterAt, its own
\* predecessor is still in the heap, and the receiver is as it was before
\* the call.
C4_Witness ==
    /\ Placed
    /\ Len(worlds) = 3
    /\ last.recv = 2
    /\ Len(worlds[1].characters) = 0
    /\ Len(worlds[2].characters) = 1
    /\ worlds[2] = last.before
    /\ Len(Result.characters) = 2

\* C5: rows has height rows of width cells each, rows[row][col] being the
\* lookup at (col, row); a 0 x 0 grid has the empty sequence for rows.
C5_Rows ==
    \A g \in Newest :
        LET r == rows(g)
        IN  /\ Len(r) = g.height
            /\ \A row \in 1 .. g.height :
                 /\ Len(r[row]) = g.width
                 /\ \A col \in 1 .. g.width :
                      r[row][col] = _at(g, col - 1, row - 1)
            /\ (g.width = 0 /\ g.height = 0) => r = << >>

\* C5 witness: a 2 x 1 grid with a record at (1, 0) has the single row
\* [null, A].
C5_Witness ==
    \E g \in Newest :
        /\ g.width = 2
        /\ g.height = 1
        /\ rows(g) = << <<Null, "A">> >>

\* C6: once a request to the populator has failed (more requests were made
\* than symbols handed out), populatedBy has been abandoned: it returned no
\* grid, the failed request was its last one, and it takes no further step.
C6_FailurePropagates ==
    asked > populator.pos =>
        /\ pc = "threw"
        /\ returned = 0
        /\ asked = populator.pos + 1
        /\ ~ENABLED NextPop

\* C6 witness: a 2 x 2 build failed at its third request.
C6_Witness ==
    /\ pc = "threw"
    /\ width = 2
    /\ height = 2
    /\ asked = 3
    /\ populator.pos = 2
    /\ returned = 0

\* C7: an in-bounds lookup answers the empty value exactly when no record has
\* those coordinates.
C7_EmptyIffNoRecord ==
    \A g \in Newest : \A cx \in ProbeX(g), cy \in ProbeY(g) :
        InBounds(g, cx, cy)
          => (_at(g, cx, cy) = Null <=> Matching(g, cx, cy) = {})

\* C8: a withCharacterAt at out-of-range coordinates returns a grid whose
\* rows equal the receiver's, cell for cell, and the lookup at those
\* coordinates on the new grid still answers out-of-bounds.
C8_OutOfBoundsPlacement ==
    (Placed /\ ~InBounds(last.before, last.x, last.y)) =>
        /\ last.ret = Len(worlds)
        /\ rows(Result) = rows(last.before)
        /\ _at(Result, last.x, last.y) = Undefined

\* C8 witness: 'B' was placed outside a grid of at least one cell that shows
\* an 'A', and no 'B' shows in the rows.
C8_Witness ==
    /\ Placed
    /\ ~InBounds(last.before, last.x, last.y)
    /\ last.character = "B"
    /\ Result.width >= 1
    /\ Result.height >= 1
    /\ \E row \in 1 .. Result.height : \E col \in 1 .. Result.width :
         rows(Result)[row][col] = "A"
    /\ \A row \in 1 .. Result.height : \A col \in 1 .. Result.width :
         rows(Result)[row][col] # "B"

\* C9: withCharacterAt returns a grid of the receiver's width and height whose
\* records are the receiver's records, in order, followed by {x, y, character}.
C9_Append ==
    Placed =>
        /\ Result.width = last.before.width
        /\ Result.height = last.before.height
        /\ Len(Result.characters) = Len(last.before.characters) + 1
        /\ \A k \in 1 .. Len(last.before.characters) :
             Result.characters[k] = last.before.characters[k]
        /\ Result.characters[Len(Result.characters)]
             = [x |-> last.x, y |-> last.y, character |-> last.character]

\* C9 witness: the placement was at coordinates the receiver already had a
\* record for, and both records are in the result.
C9_Witness ==
    /\ Placed
    /\ Matching(last.before, last.x, last.y) # {}
    /\ Cardinality(Matching(Result, last.x, last.y)) = 2

\* C10: a placement changes the lookup of no other coordinate, and on an
\* in-bounds cell without a record the new grid shows the placed character.
C10_Frame ==
    Placed =>
        /\ \A cx \in ProbeX(Result), cy \in ProbeY(Result) :
             <<cx, cy>> # <<last.x, last.y>>
               => _at(Result, cx, cy) = _at(last.before, cx, cy)
        /\ (InBounds(last.before, last.x, last.y)
               /\ Matching(last.before, last.x, last.y) = {})
             => _at(Result, last.x, last.y) = last.character

\* C10 witness: 'B' was placed on a free cell of a grid that shows 'A' in
\* another cell of the same column; both show.
C10_Witness ==
    /\ Placed
    /\ InBounds(last.before, last.x, last.y)
    /\ Matching(last.before, last.x, last.y) = {}
    /\ last.character = "B"
    /\ _at(Result, last.x, last.y) = "B"
    /\ \E cy \in 0 .. Result.height - 1 :
         /\ cy # last.y
         /\ _at(last.before, last.x, cy) = "A"
         /\ _at(Result, last.x, cy) = "A"

=============================================================================
